---- MODULE Spec2Model ----
(***************************************************************************)
(* Model of pagmo::dtlz (include/pagmo/problems/dtlz.hpp): the DTLZ        *)
(* multi-objective test suite.  The four data members are the state of an  *)
(* instance; the constructor, fitness, p_distance (both overloads),        *)
(* get_nobj, get_bounds, get_name and serialize are the operations.        *)
(*                                                                         *)
(* Numbers.  The code computes in double; the model computes in exact real *)
(* arithmetic.  A number is a 3-tuple:                                     *)
(*   <<"q", n, d>>    the rational n/d (d > 0, lowest terms)               *)
(*   <<"qpi", n, d>>  the angle (n/d)*pi                                   *)
(*   <<"nan",0,0>>, <<"inf",0,0>>, <<"indet",0,0>>                         *)
(*   <<op, a, b>>     the unevaluated term op(a, b), when the result has   *)
(*                    no rational value (cos, sin, pow at other points)    *)
(* Indices have the type vector_double::size_type, an unsigned integer of  *)
(* SizeBits bits; subtraction wraps modulo 2^SizeBits.                     *)
(***************************************************************************)
EXTENDS Integers, Sequences, FiniteSets, TLC

\* ------------------------------------------------------------------ bounds
\* width of vector_double::size_type in the model
SizeBits == 4
\* largest dimension for which calls on an instance are explored
MaxDim == 4
\* largest shape exponent alpha given to the constructor
MaxAlpha == 2
\* largest population size
MaxPop == 2
\* number of concurrent caller threads
NThreads == 2

\* ------------------------------------------------------------ exact numbers
RECURSIVE Gcd(_, _)
Gcd(a, b) == IF b = 0 THEN a ELSE Gcd(b, a % b)

Abs(n) == IF n < 0 THEN -n ELSE n

\* n/d in lowest terms with a positive denominator (d # 0)
Norm(tag, n, d) ==
    LET g == Gcd(Abs(n), Abs(d))
        s == IF d < 0 THEN -1 ELSE 1
    IN  <<tag, (s * n) \div g, (s * d) \div g>>

Q(n, d) == Norm("q", n, d)

Zero == <<"q", 0, 1>>
One == <<"q", 1, 1>>
Half == <<"q", 1, 2>>
NaN == <<"nan", 0, 0>>
Inf == <<"inf", 0, 0>>
\* the value of an out-of-bounds read
Indet == <<"indet", 0, 0>>

IsQ(v) == v[1] = "q"
IsQPi(v) == v[1] = "qpi"

\* detail::pi() and detail::pi_half()
pi == <<"qpi", 1, 1>>
pi_half == <<"qpi", 1, 2>>

\* a + b; adding 0 leaves the other operand as it is
Add(a, b) ==
    IF IsQ(a) /\ IsQ(b) THEN Q(a[2] * b[3] + b[2] * a[3], a[3] * b[3])
    ELSE IF a = Zero THEN b
    ELSE IF b = Zero THEN a
    ELSE <<"add", a, b>>

Sub(a, b) ==
    IF IsQ(a) /\ IsQ(b) THEN Q(a[2] * b[3] - b[2] * a[3], a[3] * b[3])
    ELSE <<"sub", a, b>>

Mul(a, b) ==
    IF IsQ(a) /\ IsQ(b) THEN Q(a[2] * b[2], a[3] * b[3])
    ELSE IF IsQ(a) /\ IsQPi(b) THEN Norm("qpi", a[2] * b[2], a[3] * b[3])
    ELSE IF IsQPi(a) /\ IsQ(b) THEN Norm("qpi", a[2] * b[2], a[3] * b[3])
    ELSE <<"mul", a, b>>

\* IEEE division: x/0 is NaN for x = 0 and infinite otherwise
Div(a, b) ==
    IF IsQ(a) /\ IsQ(b)
    THEN IF b[2] # 0 THEN Q(a[2] * b[3], a[3] * b[2])
         ELSE IF a[2] = 0 THEN NaN ELSE Inf
    ELSE <<"div", a, b>>

RECURSIVE IntPow(_, _)
IntPow(b, k) == IF k = 0 THEN 1 ELSE b * IntPow(b, k - 1)

\* std::pow(x, e): exact for a rational x and a natural exponent
\* (pow(x, 0) = 1 also for x = 0), and at the fixed points 0 and 1
Pow(x, e) ==
    IF IsQ(x) /\ IsQ(e) /\ e[3] = 1 /\ e[2] >= 0
    THEN Q(IntPow(x[2], e[2]), IntPow(x[3], e[2]))
    ELSE IF x = One THEN One
    ELSE IF x = Zero /\ IsQ(e) /\ e[2] > 0 THEN Zero
    ELSE <<"pow", x, e>>

\* the angle a as a number of quarter turns, when it is one
IsQuarterTurns(a) == IsQPi(a) /\ a[3] \in {1, 2}
QuarterTurns(a) == (((a[2] * (2 \div a[3])) % 4) + 4) % 4

\* std::cos and std::sin: exact at the multiples of pi/2
Cos(a) ==
    IF IsQuarterTurns(a)
    THEN CASE QuarterTurns(a) = 0 -> One
           [] QuarterTurns(a) = 1 -> Zero
           [] QuarterTurns(a) = 2 -> Q(-1, 1)
           [] QuarterTurns(a) = 3 -> Zero
    ELSE IF a = Zero THEN One
    ELSE <<"cos", a, Zero>>

Sin(a) ==
    IF IsQuarterTurns(a)
    THEN CASE QuarterTurns(a) = 0 -> Zero
           [] QuarterTurns(a) = 1 -> One
           [] QuarterTurns(a) = 2 -> Zero
           [] QuarterTurns(a) = 3 -> Q(-1, 1)
    ELSE IF a = Zero THEN Zero
    ELSE <<"sin", a, Zero>>

\* ------------------------------------------------------- index arithmetic
\* std::numeric_limits<size_type>::max()
SizeMax == IntPow(2, SizeBits) - 1

\* a - b in size_type: wraps modulo 2^SizeBits
USub(a, b) == (a + SizeMax + 1 - b) % (SizeMax + 1)

\* v[i] for a size_type index i (0-based); an out-of-bounds read is
\* undefined and yields an indeterminate value
Rd(v, i) == IF i < Len(v) THEN v[i + 1] ELSE Indet

\* ------------------------------------------------------------ the instance
\* the data members of a dtlz object
Fields(prob_id, alpha, dim, fdim) ==
    [m_prob_id |-> prob_id, m_alpha |-> alpha, m_dim |-> dim, m_fdim |-> fdim]

\* the constructor's five checks, in the order of the code
BadProbId(prob_id) == prob_id = 0 \/ prob_id > 7
FdimTooSmall_off(fdim) == FALSE
FdimTooSmall(fdim) == fdim < 2
FdimTooLarge(fdim) == fdim > SizeMax \div 3
DimTooLarge(dim) == dim > SizeMax \div 3
DimNotLarger_lt(dim, fdim) == dim < fdim
DimNotLarger(dim, fdim) == dim <= fdim

\* dtlz::dtlz: the object exists only if no check throws
dtlz(prob_id, dim, fdim, alpha) ==
    IF BadProbId(prob_id) \/ FdimTooSmall(fdim) \/ FdimTooLarge(fdim)
       \/ DimTooLarge(dim) \/ DimNotLarger(dim, fdim)
    THEN [ok |-> FALSE, err |-> "invalid_argument"]
    ELSE [ok |-> TRUE, obj |-> Fields(prob_id, alpha, dim, fdim)]

\* ------------------------------------------------------ distance functions
RECURSIVE g13_sum(_, _, _)
g13_sum(x, i, y) ==
    IF i < Len(x)
    THEN g13_sum(x, i + 1,
                 Add(y, Sub(Pow(Sub(x[i + 1], Half), Q(2, 1)),
                            Cos(Mul(Mul(Q(20, 1), pi), Sub(x[i + 1], Half))))))
    ELSE y

g13_func(x) == Mul(Q(100, 1), Add(g13_sum(x, 0, Zero), Q(Len(x), 1)))

RECURSIVE g245_sum(_, _, _)
g245_sum(x, i, y) ==
    IF i < Len(x)
    THEN g245_sum(x, i + 1, Add(y, Pow(Sub(x[i + 1], Half), Q(2, 1))))
    ELSE y

g245_func(x) == g245_sum(x, 0, Zero)

RECURSIVE g6_sum(_, _, _)
g6_sum(x, i, y) ==
    IF i < Len(x)
    THEN g6_sum(x, i + 1, Add(y, Pow(x[i + 1], Q(1, 10))))
    ELSE y

g6_func(x) == g6_sum(x, 0, Zero)

RECURSIVE g7_sum(_, _, _)
g7_sum(x, i, y) ==
    IF i < Len(x) THEN g7_sum(x, i + 1, Add(y, x[i + 1])) ELSE y

g7_func(x) == Mul(Div(Q(9, 1), Q(Len(x), 1)), g7_sum(x, 0, Zero))

g_case_3as2(prob_id) ==
    CASE prob_id = 6 -> "g6"
      [] prob_id = 7 -> "g7"
      [] prob_id \in {1} -> "g13"
      [] prob_id \in {2, 3, 4, 5} -> "g245"
      [] OTHER -> "none"

\* the case labels of the switch in g_func: the kernel an id selects
g_case(prob_id) ==
    CASE prob_id = 6 -> "g6"
      [] prob_id = 7 -> "g7"
      [] prob_id \in {1, 3} -> "g13"
      [] prob_id \in {2, 4, 5} -> "g245"
      [] OTHER -> "none"

\* dtlz::g_func: -1 when no case matches
g_func(obj, x) ==
    CASE g_case(obj.m_prob_id) = "g6" -> g6_func(x)
      [] g_case(obj.m_prob_id) = "g7" -> g7_func(x)
      [] g_case(obj.m_prob_id) = "g13" -> g13_func(x)
      [] g_case(obj.m_prob_id) = "g245" -> g245_func(x)
      [] OTHER -> Q(-1, 1)

\* the loop that fills x_M: for (i = from; i < x.size(); ++i) push_back(x[i])
RECURSIVE x_M_from(_, _, _)
x_M_from(x, i, acc) ==
    IF i < Len(x) THEN x_M_from(x, i + 1, Append(acc, x[i + 1])) ELSE acc

LastIdx_two(fsize) == USub(fsize, 2)

\* f.size() - 1u, the index of the last objective
LastIdx(fsize) == USub(fsize, 1)

\* the distance components as the shape kernels extract them (f.size() = m_fdim)
x_M_of(obj, x) == x_M_from(x, LastIdx(obj.m_fdim), <<>>)

\* ---------------------------------------------------------- shape functions
\* The state of one kernel call: the objective vector f, the set wr of the
\* (0-based) indices of f that were assigned, and two flags: oob, an index
\* outside its vector was read or written; wrap, a size_type subtraction
\* went below zero.

\* vector_double f(m_fdim): m_fdim zeros, nothing assigned yet
NewF(fdim) ==
    [f |-> [k \in 1 .. fdim |-> Zero], wr |-> {}, oob |-> FALSE, wrap |-> FALSE]

\* records the subtraction a - b in size_type
Subtracted(st, a, b) == [st EXCEPT !.wrap = @ \/ a < b]

\* records the access v[i]
Touch(st, v, i) == [st EXCEPT !.oob = @ \/ i >= Len(v)]

\* f[i] = v
Put(st, i, v) ==
    IF i < Len(st.f)
    THEN [st EXCEPT !.f[i + 1] = v, !.wr = @ \cup {i}]
    ELSE [st EXCEPT !.oob = TRUE]

\* the factor a position component contributes to a product
CosTerm(kind, obj, v) ==
    CASE kind = "f1" -> v
      [] kind = "f23" -> Cos(Mul(v, pi_half))
      [] kind = "f4" -> Cos(Mul(Pow(v, Q(obj.m_alpha, 1)), pi_half))
      [] kind = "f56" -> Cos(Mul(v, pi_half))

\* the closing factor of a product
SinTerm(kind, obj, v) ==
    CASE kind = "f1" -> Sub(One, v)
      [] kind = "f23" -> Sin(Mul(v, pi_half))
      [] kind = "f4" -> Sin(Mul(Pow(v, Q(obj.m_alpha, 1)), pi_half))
      [] kind = "f56" -> Sin(Mul(v, pi_half))

\* the value a product starts from
HeadTerm(kind, g) ==
    IF kind = "f1" THEN Mul(Half, Add(One, g)) ELSE Add(One, g)

LastTerm_nohalf(kind, obj, g, v) ==
    IF kind = "f1" THEN Mul(Sub(One, v), Add(One, g))
    ELSE Mul(Add(One, g), SinTerm(kind, obj, v))

\* the last objective
LastTerm(kind, obj, g, v) ==
    IF kind = "f1" THEN Mul(Mul(Half, Sub(One, v)), Add(One, g))
    ELSE Mul(Add(One, g), SinTerm(kind, obj, v))

\* for (j = j0; j < to; ++j) f[k] *= CosTerm(src[j])
RECURSIVE MulInto(_, _, _, _, _, _, _)
MulInto(kind, obj, src, k, j, to, st) ==
    IF j < to
    THEN MulInto(kind, obj, src, k, j + 1, to,
                 Put(Touch(st, src, j), k,
                     Mul(Rd(st.f, k), CosTerm(kind, obj, Rd(src, j)))))
    ELSE st

\* the first objective index the middle loop assigns
MidFirst == 1

\* for (i = i0; i < f.size() - 1; ++i) { f[i] = head; product; closing factor }
RECURSIVE MidLoop(_, _, _, _, _, _)
MidLoop(kind, obj, src, g, i, st) ==
    IF i < LastIdx(Len(st.f))
    THEN LET n == USub(Len(st.f), i + 1)
             s1 == Put(Subtracted(st, Len(st.f), i + 1), i, HeadTerm(kind, g))
             s2 == MulInto(kind, obj, src, i, 0, n, s1)
             s3 == Put(Touch(s2, src, n), i,
                       Mul(Rd(s2.f, i), SinTerm(kind, obj, Rd(src, n))))
         IN  MidLoop(kind, obj, src, g, i + 1, s3)
    ELSE st

\* the shape-function part shared by f1, f23, f4 (src = x) and f56
\* (src = theta): f[0], the middle objectives, f[f.size() - 1]
Shape(kind, obj, src, g, st) ==
    LET s0 == Subtracted(st, Len(st.f), 1)
        s1 == Put(s0, 0, HeadTerm(kind, g))
        s2 == MulInto(kind, obj, src, 0, 0, LastIdx(Len(st.f)), s1)
        s3 == MidLoop(kind, obj, src, g, MidFirst, s2)
    IN  Put(Touch(s3, src, 0), LastIdx(Len(st.f)),
            LastTerm(kind, obj, g, Rd(src, 0)))

f1_shape(obj, x, g) == Shape("f1", obj, x, g, NewF(obj.m_fdim))
f23_shape(obj, x, g) == Shape("f23", obj, x, g, NewF(obj.m_fdim))
f4_shape(obj, x, g) == Shape("f4", obj, x, g, NewF(obj.m_fdim))

\* the meta-variables of f56: theta[0] = x[0],
\* theta[i] = t + (g * x[i]) / (1 + g) for i = 1 .. f.size() - 1
RECURSIVE theta_loop(_, _, _, _, _)
theta_loop(x, g, t, i, th) ==
    IF i < Len(th.v)
    THEN theta_loop(x, g, t, i + 1,
                    [v |-> [th.v EXCEPT ![i + 1] =
                                Add(t, Div(Mul(g, Rd(x, i)), Add(One, g)))],
                     oob |-> th.oob \/ i >= Len(x)])
    ELSE th

f56_theta(obj, x, g) ==
    LET zeros == [k \in 1 .. obj.m_fdim |-> Zero]
        th0 == IF obj.m_fdim > 0
               THEN [v |-> [zeros EXCEPT ![1] = Rd(x, 0)], oob |-> Len(x) = 0]
               ELSE [v |-> zeros, oob |-> TRUE]
        t == Div(One, Mul(Q(2, 1), Add(One, g)))
    IN  theta_loop(x, g, t, 1, th0)

f56_shape(obj, x, g) ==
    LET th == f56_theta(obj, x, g)
    IN  Shape("f56", obj, th.v, g, [NewF(obj.m_fdim) EXCEPT !.oob = th.oob])

\* dtlz::h7_func: the sum leaves out the last element of f
RECURSIVE h7_sum(_, _, _, _)
h7_sum(f, g, i, y) ==
    IF i < LastIdx(Len(f))
    THEN h7_sum(f, g, i + 1,
                Add(y, Mul(Div(Rd(f, i), Add(One, g)),
                           Add(One, Sin(Mul(Mul(Q(3, 1), pi), Rd(f, i)))))))
    ELSE y

h7_func(obj, f, g) == Sub(Q(obj.m_fdim, 1), h7_sum(f, g, 0, Zero))

\* for (i = i0; i < f.size() - 1; ++i) f[i] = x[i]
RECURSIVE f7_copy(_, _, _)
f7_copy(x, i, st) ==
    IF i < LastIdx(Len(st.f))
    THEN f7_copy(x, i + 1, Put(Touch(st, x, i), i, Rd(x, i)))
    ELSE st

\* the shape part of f7; g1 is 1 + g_func(x_M)
f7_shape(obj, x, g1) ==
    LET s0 == Subtracted(NewF(obj.m_fdim), obj.m_fdim, 1)
        s1 == f7_copy(x, 0, s0)
        s2 == [s1 EXCEPT !.oob = @ \/ LastIdx(Len(s1.f)) > Len(s1.f)]
    IN  Put(s2, LastIdx(Len(s2.f)), Mul(Add(One, g1), h7_func(obj, s2.f, g1)))

f1_objfun_impl(obj, x) == f1_shape(obj, x, g_func(obj, x_M_of(obj, x)))
f23_objfun_impl(obj, x) == f23_shape(obj, x, g_func(obj, x_M_of(obj, x)))
f4_objfun_impl(obj, x) == f4_shape(obj, x, g_func(obj, x_M_of(obj, x)))
f56_objfun_impl(obj, x) == f56_shape(obj, x, g_func(obj, x_M_of(obj, x)))
f7_objfun_impl(obj, x) ==
    f7_shape(obj, x, Add(One, g_func(obj, x_M_of(obj, x))))

\* the case labels of the switch in fitness: the kernel an id selects
f_case(prob_id) ==
    CASE prob_id = 1 -> "f1"
      [] prob_id \in {2, 3} -> "f23"
      [] prob_id = 4 -> "f4"
      [] prob_id \in {5, 6} -> "f56"
      [] prob_id = 7 -> "f7"
      [] OTHER -> "none"

\* dtlz::fitness: retval stays empty when no case matches
fitness(obj, x) ==
    CASE f_case(obj.m_prob_id) = "f1" -> f1_objfun_impl(obj, x)
      [] f_case(obj.m_prob_id) = "f23" -> f23_objfun_impl(obj, x)
      [] f_case(obj.m_prob_id) = "f4" -> f4_objfun_impl(obj, x)
      [] f_case(obj.m_prob_id) = "f56" -> f56_objfun_impl(obj, x)
      [] f_case(obj.m_prob_id) = "f7" -> f7_objfun_impl(obj, x)
      [] OTHER -> NewF(0)

conv_x_M_late(obj, x) == x_M_from(x, obj.m_fdim, <<>>)

\* the x_M of convergence_metric: x[m_fdim - 1 ..]
conv_x_M(obj, x) == x_M_from(x, USub(obj.m_fdim, 1), <<>>)

\* dtlz::convergence_metric
convergence_metric(obj, x) == Add(Zero, g_func(obj, conv_x_M(obj, x)))

\* dtlz::p_distance(const vector_double &)
p_distance(obj, x) ==
    IF Len(x) # obj.m_dim
    THEN [ok |-> FALSE, err |-> "invalid_argument"]
    ELSE [ok |-> TRUE, val |-> convergence_metric(obj, x)]

\* the loop of p_distance(const population &): the first member that throws
\* ends the call
RECURSIVE pop_sum(_, _, _, _)
pop_sum(obj, xs, i, c) ==
    IF i < Len(xs)
    THEN LET d == p_distance(obj, xs[i + 1])
         IN  IF d.ok THEN pop_sum(obj, xs, i + 1, Add(c, d.val)) ELSE d
    ELSE [ok |-> TRUE, val |-> c]

p_distance_pop_skip(obj, xs) ==
    LET s == pop_sum(obj, xs, 1, Zero)
    IN  IF s.ok THEN [ok |-> TRUE, val |-> Div(s.val, Q(Len(xs), 1))] ELSE s

\* dtlz::p_distance(const pagmo::population &); xs is pop.get_x()
p_distance_pop(obj, xs) ==
    LET s == pop_sum(obj, xs, 0, Zero)
    IN  IF s.ok THEN [ok |-> TRUE, val |-> Div(s.val, Q(Len(xs), 1))] ELSE s

get_nobj(obj) == obj.m_fdim

get_bounds(obj) ==
    <<[k \in 1 .. obj.m_dim |-> Zero], [k \in 1 .. obj.m_dim |-> One]>>

\* "DTLZ" + std::to_string(m_prob_id)
get_name(obj) == <<"DTLZ", obj.m_prob_id>>

serialize_swapped(obj, ar) ==
    IF ar.mode = "save"
    THEN [obj |-> obj,
          ar |-> [ar EXCEPT !.data =
                      <<obj.m_prob_id, obj.m_dim, obj.m_fdim, obj.m_alpha>>]]
    ELSE [obj |-> [m_prob_id |-> ar.data[1], m_dim |-> ar.data[2],
                   m_fdim |-> ar.data[4], m_alpha |-> ar.data[3]],
          ar |-> ar]

\* dtlz::serialize: ar(m_prob_id, m_dim, m_fdim, m_alpha).  A saving archive
\* receives the four members in this order; a loading archive assigns its
\* four values to the members in this order.
serialize(obj, ar) ==
    IF ar.mode = "save"
    THEN [obj |-> obj,
          ar |-> [ar EXCEPT !.data =
                      <<obj.m_prob_id, obj.m_dim, obj.m_fdim, obj.m_alpha>>]]
    ELSE [obj |-> [m_prob_id |-> ar.data[1], m_dim |-> ar.data[2],
                   m_fdim |-> ar.data[3], m_alpha |-> ar.data[4]],
          ar |-> ar]

\* ------------------------------------------------------------------ inputs
\* the values of decision-vector components
Grid == {Zero, Half, One}

\* all decision vectors of length n over Grid
Vectors(n) == [1 .. n -> Grid]

\* the vectors of length n with all components equal
ConstVectors(n) == {[k \in 1 .. n |-> c] : c \in Grid}

\* arguments of fitness and p_distance on an instance of dimension dim:
\* every vector of the right length, and constant vectors of other lengths
CallInputs(dim) ==
    Vectors(dim) \cup UNION {ConstVectors(n) : n \in 0 .. dim + 1}

\* a vector of length n off the optimal front: Half, ..., Half, One
Probe(n) == [k \in 1 .. n |-> IF k = n THEN One ELSE Half]

\* members of a population: two of the right length, one too short
Members(dim) == {[k \in 1 .. dim |-> Half], Probe(dim), Probe(dim - 1)}

\* arguments of the calls explored in sequences
SeqInputs(dim) == {Probe(dim), Probe(dim - 1)}
SeqPopulations(dim) == UNION {[1 .. n -> SeqInputs(dim)] : n \in 0 .. 1}

\* pop.get_x() of the populations of at most MaxPop members
Populations(dim) == UNION {[1 .. n -> Members(dim)] : n \in 0 .. MaxPop}

\* constructor arguments
ProbIds == 0 .. 8
Sizes == 0 .. SizeMax
Alphas == 0 .. MaxAlpha

\* archives written by saving other dtlz instances
LoadArchives ==
    {serialize(dtlz(a[1], a[2], a[3], a[4]).obj, [mode |-> "save", data |-> <<>>]).ar.data :
        a \in {<<2, 3, 2, 0>>, <<7, 4, 3, 1>>}}

\* ------------------------------------------------------------------- state
VARIABLES
    alive,    \* an instance exists
    inst,     \* its data members
    given,    \* the arguments of the last constructor call
    ctor,     \* the outcome of the last constructor call
    origin,   \* the member values given at construction or by the last load
    call,     \* the last call on the instance: arguments, locals, outcome
    memo,     \* a fitness call remembered since the members were last set
    tpc,      \* per thread: position in its call
    targ,     \* per thread: the call's operation and argument
    xMs,      \* the x_M vectors of the calls in progress, by storage slot
    tres      \* per thread: the outcome of the call

vars == <<alive, inst, given, ctor, origin, call, memo, tpc, targ, xMs, tres>>
seqVars == <<alive, inst, given, ctor, origin, call, memo>>
thrVars == <<tpc, targ, xMs, tres>>

Threads == 1 .. NThreads

NoFields == Fields(0, 0, 0, 0)
NoArgs == [prob_id |-> 0, dim |-> 0, fdim |-> 0, alpha |-> 0]
NoMemo == [set |-> FALSE, x |-> <<>>, f |-> <<>>]

\* a call record: op and arguments (x, xs, ar); the locals at return (xM, g,
\* the flags of the kernel state); the outcome kind and value
Blank ==
    [op |-> "none", x |-> <<>>, xs |-> <<>>, ar |-> <<>>,
     xM |-> <<>>, g |-> Zero, wr |-> {}, oob |-> FALSE, wrap |-> FALSE,
     kind |-> "none", val |-> <<>>]

Init ==
    /\ alive = FALSE
    /\ inst = NoFields
    /\ given = NoArgs
    /\ ctor = "none"
    /\ origin = NoFields
    /\ call = Blank
    /\ memo = NoMemo
    /\ tpc = [t \in Threads |-> "idle"]
    /\ targ = [t \in Threads |-> [op |-> "none", x |-> <<>>]]
    /\ xMs = [t \in Threads |-> <<>>]
    /\ tres = [t \in Threads |-> [kind |-> "none", val |-> <<>>]]

\* calls are explored on instances of dimension at most MaxDim
Callable == alive /\ inst.m_dim <= MaxDim

\* dtlz::dtlz(prob_id, dim, fdim, alpha)
Construct(prob_id, dim, fdim, alpha) ==
    LET r == dtlz(prob_id, dim, fdim, alpha)
    IN  /\ ctor = "none"
        /\ alive' = r.ok
        /\ inst' = IF r.ok THEN r.obj ELSE NoFields
        /\ origin' = IF r.ok THEN r.obj ELSE NoFields
        /\ given' = [prob_id |-> prob_id, dim |-> dim, fdim |-> fdim,
                     alpha |-> alpha]
        /\ ctor' = IF r.ok THEN "ok" ELSE r.err
        /\ call' = Blank
        /\ memo' = NoMemo
        /\ UNCHANGED thrVars

\* fitness(x).  Reading outside x is undefined: the call then crashes or
\* returns a vector with indeterminate entries.
Fitness(x, remember) ==
    LET st == fitness(inst, x)
    IN  /\ Callable
        /\ \E k \in (IF st.oob THEN {"value", "crash"} ELSE {"value"}) :
             call' = [Blank EXCEPT !.op = "fitness", !.x = x,
                          !.xM = x_M_of(inst, x),
                          !.g = g_func(inst, x_M_of(inst, x)),
                          !.wr = st.wr, !.oob = st.oob, !.wrap = st.wrap,
                          !.kind = k,
                          !.val = IF k = "value" THEN st.f ELSE <<>>]
        /\ memo' = IF remember /\ ~memo.set /\ ~st.oob
                   THEN [set |-> TRUE, x |-> x, f |-> st.f]
                   ELSE memo
        /\ UNCHANGED <<alive, inst, given, ctor, origin>>
        /\ UNCHANGED thrVars

\* p_distance(x)
PDistance(x) ==
    LET r == p_distance(inst, x)
    IN  /\ Callable
        /\ call' = IF r.ok
                   THEN [Blank EXCEPT !.op = "p_distance", !.x = x,
                             !.xM = conv_x_M(inst, x),
                             !.g = g_func(inst, conv_x_M(inst, x)),
                             !.wrap = inst.m_fdim < 1,
                             !.kind = "value", !.val = r.val]
                   ELSE [Blank EXCEPT !.op = "p_distance", !.x = x,
                             !.kind = r.err]
        /\ UNCHANGED <<alive, inst, given, ctor, origin, memo>>
        /\ UNCHANGED thrVars

\* p_distance(pop)
PDistancePop(xs) ==
    LET r == p_distance_pop(inst, xs)
    IN  /\ Callable
        /\ call' = IF r.ok
                   THEN [Blank EXCEPT !.op = "p_distance_pop", !.xs = xs,
                             !.kind = "value", !.val = r.val]
                   ELSE [Blank EXCEPT !.op = "p_distance_pop", !.xs = xs,
                             !.kind = r.err]
        /\ UNCHANGED <<alive, inst, given, ctor, origin, memo>>
        /\ UNCHANGED thrVars

GetNobj ==
    /\ Callable
    /\ call' = [Blank EXCEPT !.op = "get_nobj", !.kind = "value",
                    !.val = get_nobj(inst)]
    /\ UNCHANGED <<alive, inst, given, ctor, origin, memo>>
    /\ UNCHANGED thrVars

GetBounds ==
    /\ Callable
    /\ call' = [Blank EXCEPT !.op = "get_bounds", !.kind = "value",
                    !.val = get_bounds(inst)]
    /\ UNCHANGED <<alive, inst, given, ctor, origin, memo>>
    /\ UNCHANGED thrVars

GetName ==
    /\ Callable
    /\ call' = [Blank EXCEPT !.op = "get_name", !.kind = "value",
                    !.val = get_name(inst)]
    /\ UNCHANGED <<alive, inst, given, ctor, origin, memo>>
    /\ UNCHANGED thrVars

\* serialize(ar) with a saving archive
Save ==
    LET r == serialize(inst, [mode |-> "save", data |-> <<>>])
    IN  /\ Callable
        /\ inst' = r.obj
        /\ call' = [Blank EXCEPT !.op = "save", !.ar = r.ar.data,
                        !.kind = "value"]
        /\ UNCHANGED <<alive, given, ctor, origin, memo>>
        /\ UNCHANGED thrVars

\* serialize(ar) with a loading archive that holds data
Load(data) ==
    LET r == serialize(inst, [mode |-> "load", data |-> data])
    IN  /\ Callable
        /\ inst' = r.obj
        /\ origin' = Fields(data[1], data[4], data[2], data[3])
        /\ call' = [Blank EXCEPT !.op = "load", !.ar = data, !.kind = "value"]
        /\ memo' = NoMemo
        /\ UNCHANGED <<alive, given, ctor>>
        /\ UNCHANGED thrVars

\* the life of one object: the constructor call, then any sequence of calls
Next ==
    \/ ctor = "none" /\ \E p \in ProbIds, d \in Sizes, f \in Sizes, a \in Alphas :
         Construct(p, d, f, a)
    \/ Callable /\ \E x \in SeqInputs(inst.m_dim), b \in BOOLEAN : Fitness(x, b)
    \/ Callable /\ \E x \in SeqInputs(inst.m_dim) : PDistance(x)
    \/ Callable /\ \E xs \in SeqPopulations(inst.m_dim) : PDistancePop(xs)
    \/ GetNobj
    \/ GetBounds
    \/ GetName
    \/ Save
    \/ \E data \in LoadArchives : Load(data)

Spec == Init /\ [][Next]_vars

\* one call on a fresh object, over all arguments
NextEval ==
    \/ ctor = "none" /\ \E p \in ProbIds, d \in Sizes, f \in Sizes, a \in Alphas :
         Construct(p, d, f, a)
    \/ Callable /\ call.op = "none"
         /\ \E x \in CallInputs(inst.m_dim) : Fitness(x, FALSE)
    \/ Callable /\ call.op = "none"
         /\ \E x \in CallInputs(inst.m_dim) : PDistance(x)
    \/ Callable /\ call.op = "none"
         /\ \E xs \in Populations(inst.m_dim) : PDistancePop(xs)

SpecEval == Init /\ [][NextEval]_vars

\* ------------------------------------------------------- concurrent callers
\* Threads call fitness and p_distance on the one instance without
\* synchronization.  A call runs in steps: x_M is filled, g is computed from
\* it, the objectives are computed from g and x.

XMSlot_static(t) == 1

\* the storage of the local x_M of the call thread t runs: an automatic
\* variable of the call, one per call
XMSlot(t) == t

\* the local g of a shape kernel: f7 adds 1 to g_func(x_M)
local_g(obj, xM) ==
    IF f_case(obj.m_prob_id) = "f7" THEN Add(One, g_func(obj, xM))
    ELSE g_func(obj, xM)

\* the part of the selected kernel that follows the computation of g
shape_part(obj, x, g) ==
    CASE f_case(obj.m_prob_id) = "f1" -> f1_shape(obj, x, g)
      [] f_case(obj.m_prob_id) = "f23" -> f23_shape(obj, x, g)
      [] f_case(obj.m_prob_id) = "f4" -> f4_shape(obj, x, g)
      [] f_case(obj.m_prob_id) = "f56" -> f56_shape(obj, x, g)
      [] f_case(obj.m_prob_id) = "f7" -> f7_shape(obj, x, g)
      [] OTHER -> NewF(0)

NoCall == [op |-> "none", x |-> <<>>]
NoRes == [kind |-> "none", val |-> <<>>]

\* the argument of the calls of thread t: the threads pass different vectors
ConcInput(t, dim) ==
    [k \in 1 .. dim |-> IF k > dim - t THEN One ELSE Half]

\* thread t enters fitness(x) with a vector of length m_dim; the selected
\* kernel allocates f and fills its x_M
FitnessBegin(t, x) ==
    /\ Callable
    /\ tpc[t] = "idle"
    /\ Len(x) = inst.m_dim
    /\ targ' = [targ EXCEPT ![t] = [op |-> "fitness", x |-> x]]
    /\ xMs' = [xMs EXCEPT ![XMSlot(t)] = x_M_of(inst, x)]
    /\ tpc' = [tpc EXCEPT ![t] = "fit_g"]
    /\ UNCHANGED tres
    /\ UNCHANGED seqVars

\* g = g_func(x_M); the shape functions fill f, which is returned
FitnessEnd(t) ==
    /\ tpc[t] = "fit_g"
    /\ tres' = [tres EXCEPT ![t] =
                    [kind |-> "value",
                     val |-> shape_part(inst, targ[t].x,
                                        local_g(inst, xMs[XMSlot(t)])).f]]
    /\ tpc' = [tpc EXCEPT ![t] = "done"]
    /\ UNCHANGED <<targ, xMs>>
    /\ UNCHANGED seqVars

\* thread t enters p_distance(x): the length check, then convergence_metric
\* fills its x_M
PDistanceBegin(t, x) ==
    /\ Callable
    /\ tpc[t] = "idle"
    /\ targ' = [targ EXCEPT ![t] = [op |-> "p_distance", x |-> x]]
    /\ IF Len(x) # inst.m_dim
       THEN /\ tres' = [tres EXCEPT ![t] =
                            [kind |-> "invalid_argument", val |-> <<>>]]
            /\ tpc' = [tpc EXCEPT ![t] = "done"]
            /\ UNCHANGED xMs
       ELSE /\ xMs' = [xMs EXCEPT ![XMSlot(t)] = conv_x_M(inst, x)]
            /\ tpc' = [tpc EXCEPT ![t] = "pd_g"]
            /\ UNCHANGED tres
    /\ UNCHANGED seqVars

\* convergence_metric: c += g_func(x_M); return c
PDistanceEnd(t) ==
    /\ tpc[t] = "pd_g"
    /\ tres' = [tres EXCEPT ![t] =
                    [kind |-> "value",
                     val |-> Add(Zero, g_func(inst, xMs[XMSlot(t)]))]]
    /\ tpc' = [tpc EXCEPT ![t] = "done"]
    /\ UNCHANGED <<targ, xMs>>
    /\ UNCHANGED seqVars

\* the caller takes the outcome; the locals of the call are gone
Return(t) ==
    /\ tpc[t] = "done"
    /\ tpc' = [tpc EXCEPT ![t] = "idle"]
    /\ targ' = [targ EXCEPT ![t] = NoCall]
    /\ tres' = [tres EXCEPT ![t] = NoRes]
    /\ xMs' = [xMs EXCEPT ![XMSlot(t)] = <<>>]
    /\ UNCHANGED seqVars

NextConc ==
    \/ ctor = "none" /\ \E p \in ProbIds, d \in Sizes, f \in Sizes, a \in Alphas :
         Construct(p, d, f, a)
    \/ Callable /\ \E t \in Threads : FitnessBegin(t, ConcInput(t, inst.m_dim))
    \/ \E t \in Threads : FitnessEnd(t)
    \/ Callable /\ \E t \in Threads :
         \E x \in {ConcInput(t, inst.m_dim), ConcInput(t, inst.m_dim - 1)} :
           PDistanceBegin(t, x)
    \/ \E t \in Threads : PDistanceEnd(t)
    \/ \E t \in Threads : Return(t)

SpecConc == Init /\ [][NextConc]_vars

\* ================================================================== claims
FieldsOf(a) == Fields(a.prob_id, a.alpha, a.dim, a.fdim)

\* the call just made was given a decision vector of the instance's dimension
RightLength == Len(call.x) = inst.m_dim

\* the trailing m_dim - m_fdim + 1 components of x
Trailing(x) == SubSeq(x, inst.m_fdim, inst.m_dim)

\* C1: construction fails with invalid_argument exactly when prob_id = 0,
\* prob_id > 7, fdim < 2, fdim > MAX/3, dim > MAX/3 or dim <= fdim; otherwise,
\* whatever alpha, it succeeds and stores the four given values; after a
\* failed construction there is no instance and no call on it.
C1_Rejected ==
    \/ given.prob_id = 0
    \/ given.prob_id > 7
    \/ given.fdim < 2
    \/ 3 * given.fdim > SizeMax
    \/ 3 * given.dim > SizeMax
    \/ given.dim <= given.fdim

C1_Constructor ==
    ctor # "none" =>
        /\ (ctor = "invalid_argument") <=> C1_Rejected
        /\ (ctor = "ok") <=> ~C1_Rejected
        /\ ctor = "ok" /\ call.op = "none" =>
               /\ alive
               /\ inst.m_prob_id = given.prob_id /\ inst.m_dim = given.dim
               /\ inst.m_fdim = given.fdim /\ inst.m_alpha = given.alpha
        /\ ctor = "invalid_argument" =>
               /\ ~alive
               /\ call.op = "none"
               /\ \A t \in Threads : tpc[t] = "idle"

C1_Witness ==
    /\ ctor = "ok" /\ alive
    /\ given.alpha = 0
    /\ given.fdim = 2 /\ given.dim = 3

\* C2: on a valid instance, fitness(x) for x of length m_dim returns a vector
\* of m_fdim entries and the kernel assigns every index 0 .. m_fdim - 1.
C2_AllAssigned ==
    call.op = "fitness" /\ RightLength =>
        /\ call.kind = "value"
        /\ Len(call.val) = inst.m_fdim
        /\ call.wr = 0 .. inst.m_fdim - 1

C2_Witness ==
    /\ call.op = "fitness" /\ RightLength
    /\ inst.m_fdim = 3
    /\ call.wr = {0, 1, 2}

\* C3: p_distance(x) fails with invalid_argument exactly when the length of
\* x differs from m_dim; otherwise it returns g of the trailing
\* m_dim - m_fdim + 1 components.  fitness never fails with invalid_argument.
C3_LengthCheck ==
    /\ call.op = "p_distance" =>
           /\ (call.kind = "invalid_argument") <=> ~RightLength
           /\ RightLength =>
                  /\ call.kind = "value"
                  /\ Len(Trailing(call.x)) = inst.m_dim - inst.m_fdim + 1
                  /\ call.val = g_func(inst, Trailing(call.x))
    /\ call.op = "fitness" => call.kind # "invalid_argument"

C3_Witness ==
    /\ call.op = "p_distance" /\ RightLength
    /\ call.kind = "value"
    /\ call.x[inst.m_fdim - 1] # call.x[inst.m_fdim]
    /\ call.val # Zero

\* C4: p_distance on an empty population fails with an error and returns no
\* value.
C4_EmptyGuarded ==
    call.op = "p_distance_pop" /\ call.xs = <<>> => call.kind # "value"

\* the sum of p_distance over the first n members, in index order
RECURSIVE C5_SumTo(_)
C5_SumTo(n) ==
    IF n = 0 THEN Zero
    ELSE Add(C5_SumTo(n - 1), p_distance(inst, call.xs[n]).val)

\* C5: on a non-empty population whose members all have length m_dim,
\* p_distance(pop) is the sum of p_distance(member) over the members in index
\* order divided by the size; if a member has another length the call fails
\* with invalid_argument.
C5_Mean ==
    call.op = "p_distance_pop" /\ call.xs # <<>> =>
        IF \A i \in 1 .. Len(call.xs) : Len(call.xs[i]) = inst.m_dim
        THEN /\ call.kind = "value"
             /\ call.val = Div(C5_SumTo(Len(call.xs)), Q(Len(call.xs), 1))
        ELSE call.kind = "invalid_argument"

C5_Witness ==
    /\ call.op = "p_distance_pop" /\ call.kind = "value"
    /\ Len(call.xs) = 2
    /\ call.xs[1] # call.xs[2]
    /\ p_distance(inst, call.xs[1]).val # Zero

\* a fitness call on the remembered vector returns the remembered objectives
C6_SameFitness ==
    call.op = "fitness" /\ call.kind = "value" /\ ~call.oob
    /\ memo.set /\ call.x = memo.x => call.val = memo.f

\* C6 as stated: after any sequence of calls, serialize included, the four
\* members equal the constructor's arguments and fitness is repeatable.
C6_NeverAltered ==
    alive => inst = FieldsOf(given) /\ C6_SameFitness

\* C6, amended: the members equal the values they were last given, by the
\* constructor or by a serialize on a loading archive; no other call alters
\* them, and between two loads fitness is repeatable.
C6_AlteredOnlyByLoad ==
    alive =>
        /\ inst = origin
        /\ (origin # FieldsOf(given) => \E data \in LoadArchives :
                origin = Fields(data[1], data[4], data[2], data[3]))
        /\ C6_SameFitness

C6_Witness ==
    /\ alive
    /\ inst # FieldsOf(given)
    /\ call.op = "fitness" /\ call.kind = "value"
    /\ memo.set /\ call.x = memo.x

\* the outcome of the call of thread t when no other call runs
C7_Alone(t) ==
    IF targ[t].op = "fitness"
    THEN [kind |-> "value", val |-> fitness(inst, targ[t].x).f]
    ELSE LET r == p_distance(inst, targ[t].x)
         IN  IF r.ok THEN [kind |-> "value", val |-> r.val]
             ELSE [kind |-> r.err, val |-> <<>>]

\* C7: under every interleaving of concurrent fitness and p_distance calls,
\* each call returns what it returns when run alone, and the members are
\* not written.
C7_Isolated ==
    /\ \A t \in Threads : tpc[t] = "done" => tres[t] = C7_Alone(t)
    /\ alive => inst = origin

C7_Witness ==
    /\ tpc[1] = "done" /\ tpc[2] = "done"
    /\ targ[1].op = "fitness" /\ targ[2].op = "p_distance"
    /\ targ[1].x # targ[2].x
    /\ tres[2].kind = "value"

\* the kernel the specification assigns to a problem id
C8_Kernel(id, xM) ==
    CASE id \in {1, 3} -> g13_func(xM)
      [] id \in {2, 4, 5} -> g245_func(xM)
      [] id = 6 -> g6_func(xM)
      [] id = 7 -> g7_func(xM)

\* C8: the id alone selects the distance kernel (g13 for 1 and 3, g245 for
\* 2, 4 and 5, g6 for 6, g7 for 7); neither fallback (-1, the empty vector)
\* is returned; fitness and p_distance use the same kernel.
C8_Dispatch ==
    /\ alive => inst.m_prob_id \in 1 .. 7
    /\ call.op \in {"fitness", "p_distance"} /\ call.kind = "value" =>
           /\ call.g = C8_Kernel(inst.m_prob_id, call.xM)
           /\ call.g # Q(-1, 1)
    /\ call.op = "p_distance" /\ call.kind = "value" => call.val = call.g
    /\ call.op = "fitness" /\ call.kind = "value" => call.val # <<>>

C8_Witness ==
    /\ call.op = "fitness" /\ call.kind = "value" /\ RightLength
    /\ inst.m_prob_id = 3
    /\ g13_func(call.xM) # g245_func(call.xM)

RECURSIVE C9_Sum(_, _)
C9_Sum(f, n) == IF n = 0 THEN Zero ELSE Add(C9_Sum(f, n - 1), f[n])

\* C9: for problem 1 the objectives sum to 0.5 * (1 + g(x_M)), x_M being the
\* trailing components of x; they sum to 0.5 when g(x_M) = 0.
C9_Hyperplane ==
    call.op = "fitness" /\ inst.m_prob_id = 1 /\ RightLength =>
        /\ call.kind = "value"
        /\ C9_Sum(call.val, Len(call.val))
               = Mul(Half, Add(One, g13_func(Trailing(call.x))))
        /\ (g13_func(Trailing(call.x)) = Zero
               => C9_Sum(call.val, Len(call.val)) = Half)

C9_Witness ==
    /\ call.op = "fitness" /\ inst.m_prob_id = 1 /\ RightLength
    /\ inst.m_fdim = 3
    /\ call.g = Zero
    /\ call.val[1] # Zero /\ call.val[2] # Zero

\* C10: on a valid instance and a vector of length m_dim, no size_type
\* subtraction wraps, no index leaves its vector, and x_M has
\* m_dim - m_fdim + 1 >= 2 entries.
C10_IndexSafe ==
    call.op \in {"fitness", "p_distance"} /\ RightLength =>
        /\ ~call.wrap
        /\ ~call.oob
        /\ Len(call.xM) = inst.m_dim - inst.m_fdim + 1
        /\ Len(call.xM) >= 2

C10_Witness ==
    /\ call.op = "fitness" /\ RightLength /\ call.kind = "value"
    /\ inst.m_prob_id = 7
    /\ inst.m_fdim = 3
    /\ Len(call.xM) = 2

====
